---- MODULE Spec2Model ----
(***************************************************************************)
(* Model of the invoice generator (src/invoice/app.py, src/api/index.py):  *)
(* the /generate-invoice handler, the PDF renderer's logo handling and     *)
(* totals arithmetic, and the background janitor, over a shared file       *)
(* system and a shared clock.                                              *)
(*                                                                         *)
(* Strings the code inspects character by character (file names, colour    *)
(* values, amounts) are sequences of one-character strings.  A path is the *)
(* sequence <<folder>> \o name.  Time is in seconds.                       *)
(***************************************************************************)
EXTENDS Integers, Sequences, FiniteSets, TLC

VARIABLES
    entry,      \* how the process was started: "main" (python app.py) or "wsgi" (api/index.py)
    cairosvg,   \* TRUE when the cairosvg import succeeded (lines 12-18)
    now,        \* the wall clock, in seconds
    fs,         \* the file system: path -> [kind, mtime, owner, content, logo]
    req,        \* per request: the handler's locals and its position
    janitor,    \* the cleanup thread: position and locals
    removed,    \* history: what the janitor's last os.remove deleted
    render      \* the row loop and totals of one create_invoice_pdf call

vars == <<entry, cairosvg, now, fs, req, janitor, removed, render>>

---------------------------------------------------------------------------
(* Bounds of the model *)

NumRequests == 2      \* requests the server handles, possibly concurrently
MaxTicks == 2         \* how many times the clock advances
MaxNameLen == 5       \* longest uploaded file name in the single-request runs
MaxRows == 3          \* product_name_<i> indices 0 .. MaxRows-1 a form may hold

(* Program constants *)

RetentionSeconds == 60    \* timedelta(minutes=1)
SleepSeconds == 30        \* time.sleep(30)
margin_x == 40
logo_w == 80
TaxPercent == 5           \* subtotal * 0.05
TotalPercent == 105       \* subtotal * 1.05

UPLOAD_FOLDER == "uploads"
OUTPUT_FOLDER == "output"

Requests == 1..NumRequests
TickSeconds == SleepSeconds   \* the clock is observed at the janitor's sleep granularity

---------------------------------------------------------------------------
(* Strings *)

UpperCase == <<"A","B","C","D","E","F","G","H","I","J","K","L","M",
               "N","O","P","Q","R","S","T","U","V","W","X","Y","Z">>
LowerCase == <<"a","b","c","d","e","f","g","h","i","j","k","l","m",
               "n","o","p","q","r","s","t","u","v","w","x","y","z">>
Digits == <<"0","1","2","3","4","5","6","7","8","9">>

Range(s) == { s[i] : i \in DOMAIN s }

\* str.lower() on one character
LowerChar(c) ==
    IF c \in Range(UpperCase)
    THEN LowerCase[CHOOSE i \in DOMAIN UpperCase : UpperCase[i] = c]
    ELSE c

\* str.lower()
Lower(s) == [i \in DOMAIN s |-> LowerChar(s[i])]

\* str.endswith(suffix)
EndsWith(s, suffix) ==
    /\ Len(s) >= Len(suffix)
    /\ SubSeq(s, Len(s) - Len(suffix) + 1, Len(s)) = suffix

\* str.replace(c, '') for a one-character c
RECURSIVE RemoveChar(_, _)
RemoveChar(s, c) ==
    IF s = <<>> THEN <<>>
    ELSE IF Head(s) = c THEN RemoveChar(Tail(s), c)
    ELSE <<Head(s)>> \o RemoveChar(Tail(s), c)

\* str.lstrip(chars), str.rstrip(chars), str.strip(chars)
RECURSIVE LStrip(_, _)
LStrip(s, chars) ==
    IF s # <<>> /\ Head(s) \in chars THEN LStrip(Tail(s), chars) ELSE s
RECURSIVE RStrip(_, _)
RStrip(s, chars) ==
    IF s # <<>> /\ s[Len(s)] \in chars THEN RStrip(SubSeq(s, 1, Len(s) - 1), chars) ELSE s
Strip(s, chars) == RStrip(LStrip(s, chars), chars)

Whitespace == {" "}

---------------------------------------------------------------------------
(* allowed_file and the staging of the upload *)

ALLOWED_EXTENSIONS ==
    { <<"p","n","g">>, <<"j","p","g">>, <<"j","p","e","g">>, <<"g","i","f">>, <<"s","v","g">> }

\* filename.rsplit('.', 1)[1]: the text after the last dot (the name has one)
RSplitExt(filename) ==
    LET i == CHOOSE k \in DOMAIN filename :
                 /\ filename[k] = "."
                 /\ \A j \in DOMAIN filename : j > k => filename[j] # "."
    IN  SubSeq(filename, i + 1, Len(filename))

\* A slip: the extension compared as typed, without .lower()
allowed_file_case_sensitive(filename) ==
    /\ "." \in Range(filename)
    /\ RSplitExt(filename) \in ALLOWED_EXTENSIONS

allowed_file(filename) ==
    /\ "." \in Range(filename)
    /\ Lower(RSplitExt(filename)) \in ALLOWED_EXTENSIONS

\* werkzeug's secure_filename on ASCII names: path separators become "_",
\* characters outside [A-Za-z0-9_.-] are dropped, leading and trailing dots
\* and underscores are stripped
SafeChars == Range(UpperCase) \cup Range(LowerCase) \cup Range(Digits) \cup {"_", ".", "-"}
RECURSIVE KeepSafe(_)
KeepSafe(s) ==
    IF s = <<>> THEN <<>>
    ELSE LET c == IF Head(s) = "/" THEN "_" ELSE Head(s)
         IN  IF c \in SafeChars THEN <<c>> \o KeepSafe(Tail(s)) ELSE KeepSafe(Tail(s))
secure_filename(filename) == Strip(KeepSafe(filename), {".", "_"})

\* os.path.join(folder, name)
PathJoin(folder, name) == <<folder>> \o name

NoPath == <<>>      \* None, for a path

---------------------------------------------------------------------------
(* The file system *)

Exists(f, path) == path \in DOMAIN f                       \* os.path.exists
IsFile(f, path) == path \in DOMAIN f /\ f[path].kind = "file"   \* os.path.isfile

\* open(path, 'wb') ... close(): creates or overwrites
WriteFile(f, path, meta) ==
    [q \in DOMAIN f \cup {path} |-> IF q = path THEN meta ELSE f[q]]

\* os.remove(path), the path existing
RemoveFile(f, path) == [q \in DOMAIN f \ {path} |-> f[q]]

\* os.listdir(folder)
ListDir(f, folder) == { q \in DOMAIN f : Head(q) = folder }

FileMeta(t, owner, content, logo) ==
    [kind |-> "file", mtime |-> t, owner |-> owner, content |-> content, logo |-> logo]

\* What is on disk when the process starts (the folders outlive the process,
\* lines 26-28): the page template, outside the two working folders and long
\* unmodified; a sub-directory and an upload left in the upload folder by an
\* earlier run.
InitialFiles ==
    [q \in { <<"templates", "index.html">>, <<UPLOAD_FOLDER, "keep">>,
             <<UPLOAD_FOLDER, "a", ".", "p", "n", "g">> } |->
        IF q = <<UPLOAD_FOLDER, "keep">>
        THEN [kind |-> "dir", mtime |-> 0 - 3600, owner |-> 0, content |-> "good", logo |-> 0]
        ELSE FileMeta(0 - 3600, 0, "good", 0)]

---------------------------------------------------------------------------
(* Form data and theme colours *)

\* data.get(key, default)
Get(data, key, default) == IF key \in DOMAIN data THEN data[key] ELSE default

DefaultPrimary == <<"#","f","7","a","8","0","a">>
DefaultSecondary == <<"#","2","d","2","d","2","d">>

HexDigits == Range(Digits) \cup {"a","b","c","d","e","f","A","B","C","D","E","F"}

\* reportlab's colors.HexColor(val) raises ValueError: after a leading '#'
\* (or '0x') the rest is read as base 16, otherwise the value as base 10, and
\* int() rejects the empty string and any character that is no digit of the base.
HexColorRaises(val) ==
    LET hash == Len(val) >= 1 /\ val[1] = "#"
        zerox == ~hash /\ Len(val) >= 2 /\ Lower(SubSeq(val, 1, 2)) = <<"0", "x">>
        body == IF hash THEN Tail(val) ELSE IF zerox THEN Tail(Tail(val)) ELSE val
        digits == IF hash \/ zerox THEN HexDigits ELSE Range(Digits)
    IN  body = <<>> \/ \E i \in DOMAIN body : body[i] \notin digits

\* Lines 80-83 raise
ThemeRaises(data) ==
    \/ HexColorRaises(Get(data, "primary_color", DefaultPrimary))
    \/ HexColorRaises(Get(data, "secondary_color", DefaultSecondary))

---------------------------------------------------------------------------
(* The request handler, generate_invoice, and create_invoice_pdf's use of *)
(* the logo.  A request's record holds the handler's locals.              *)

NoResponse == [data |-> 0, logo |-> 0]

IdleRequest ==
    [pc |-> "idle",
     upload |-> [present |-> FALSE, filename |-> <<>>, content |-> "good"],
     data |-> <<>>,
     logo_path |-> NoPath,           \* generate_invoice's logo_path
     output_file |-> NoPath,
     final_logo_path |-> NoPath,     \* create_invoice_pdf's final_logo_path
     png_path |-> NoPath,            \* the PNG convert_svg_to_png created, if any
     conversion |-> "none",          \* "none", "done" or "failed"
     logo_drawn |-> FALSE,
     drawn |-> 0,                    \* whose upload the drawn image came from
     text_x |-> 0,
     raised |-> "none",              \* the exception that reached the handler
     outcome |-> "none",             \* "pdf", "error500" or "escaped"
     response |-> NoResponse]        \* the file sent: whose data, whose logo

\* The except clause of a handler that catches only OSError: a ValueError escapes
ExceptOnlyOSError(exc) == IF exc = "FileNotFoundError" THEN "error500" ELSE "escaped"

\* Lines 304-306: except Exception -> jsonify({'error': ...}), 500
ExceptClause(exc) ==
    IF exc \in {"ValueError", "OSError", "FileNotFoundError", "Exception"}
    THEN "error500" ELSE "escaped"

\* The request leaves the try block by an exception
Raise(rec, exc) ==
    [rec EXCEPT !.raised = exc, !.outcome = ExceptClause(exc), !.pc = "finally"]

\* Lines 290-300: stage the upload, read the form, name the output file.
\* file.save raises OSError when the file cannot be opened for writing
\* (`writable` is FALSE); logo_path is then still None.
Stage(r, Uploads, Forms, Disk) ==
    /\ req[r].pc = "idle"
    /\ \E up \in Uploads, data \in Forms, writable \in Disk :
         LET accepted == up.present /\ up.filename # <<>> /\ allowed_file(up.filename)
             staged == accepted /\ writable
             save_path == PathJoin(UPLOAD_FOLDER, secure_filename(up.filename))
             timestamp == ToString(now)
             rec == [req[r] EXCEPT !.upload = up,
                                   !.data = data,
                                   !.logo_path = IF staged THEN save_path ELSE NoPath]
         IN  /\ fs' = IF staged
                      THEN WriteFile(fs, save_path, FileMeta(now, r, up.content, 0))
                      ELSE fs
             /\ req' = [req EXCEPT ![r] =
                   IF accepted /\ ~writable THEN Raise(rec, "OSError")
                   ELSE [rec EXCEPT !.pc = "logo",
                                    !.output_file =
                                        PathJoin(OUTPUT_FOLDER, <<"inv_", timestamp, ".pdf">>)]]
    /\ UNCHANGED <<entry, cairosvg, now, janitor, removed, render>>

\* A slip: no try/except around svg2png, so its exception propagates
convert_svg_to_png_unguarded(svg_path, r, wrote) ==
    LET png_path == PathJoin(UPLOAD_FOLDER, <<"conv_", ToString(now), "_", ToString(r), ".png">>)
    IN  IF ~cairosvg THEN [png |-> NoPath, created |-> NoPath, raises |-> FALSE]
        ELSE IF fs[svg_path].content # "good"
        THEN [png |-> NoPath, created |-> NoPath, raises |-> TRUE]
        ELSE IF wrote THEN [png |-> png_path, created |-> png_path, raises |-> FALSE]
        ELSE [png |-> NoPath, created |-> NoPath, raises |-> FALSE]

\* Lines 55-64.  The PNG's name carries the time to the microsecond; the
\* request's number stands for the microseconds.  svg2png raises on a file
\* that is no valid SVG; `wrote` is whether it left a file at png_path.
convert_svg_to_png(svg_path, r, wrote) ==
    LET png_path == PathJoin(UPLOAD_FOLDER, <<"conv_", ToString(now), "_", ToString(r), ".png">>)
    IN  IF ~cairosvg THEN [png |-> NoPath, created |-> NoPath, raises |-> FALSE]
        ELSE IF fs[svg_path].content # "good"
        THEN [png |-> NoPath, created |-> NoPath, raises |-> FALSE]
        ELSE IF wrote THEN [png |-> png_path, created |-> png_path, raises |-> FALSE]
        ELSE [png |-> NoPath, created |-> NoPath, raises |-> FALSE]

IsSvg(path) == EndsWith(Lower(path), <<".", "s", "v", "g">>)

\* Lines 71-86: pick the logo file (converting an SVG), then build the theme
ProcessLogo(r) ==
    /\ req[r].pc = "logo"
    /\ LET logo_path == req[r].logo_path
           usable == logo_path # NoPath /\ Exists(fs, logo_path)
       IN  \E wrote \in BOOLEAN :
             LET conv == IF usable /\ IsSvg(logo_path)
                         THEN convert_svg_to_png(logo_path, r, wrote)
                         ELSE [png |-> NoPath, created |-> NoPath, raises |-> FALSE]
                 final == IF ~usable THEN NoPath
                          ELSE IF IsSvg(logo_path) THEN conv.png ELSE logo_path
                 rec == [req[r] EXCEPT
                            !.final_logo_path = final,
                            !.png_path = conv.created,
                            !.conversion = IF usable /\ IsSvg(logo_path)
                                           THEN (IF conv.png = NoPath THEN "failed" ELSE "done")
                                           ELSE "none"]
             IN  /\ fs' = IF conv.created # NoPath
                          THEN WriteFile(fs, conv.created,
                                         FileMeta(now, fs[logo_path].owner, "good", 0))
                          ELSE fs
                 /\ req' = [req EXCEPT ![r] =
                       IF conv.raises THEN Raise(rec, "Exception")
                       ELSE IF ThemeRaises(rec.data) THEN Raise(rec, "ValueError")
                       ELSE [rec EXCEPT !.pc = "draw"]]
    /\ UNCHANGED <<entry, cairosvg, now, janitor, removed, render>>

\* Line 119
TextX(logo_drawn) == IF logo_drawn THEN margin_x + logo_w + 20 ELSE margin_x

\* Lines 107-119: draw the logo if it can be read, place the company name
DrawLogo(r) ==
    /\ req[r].pc = "draw"
    /\ LET final == req[r].final_logo_path
           readable == final # NoPath /\ Exists(fs, final) /\ fs[final].content = "good"
       IN  req' = [req EXCEPT ![r] =
               [@ EXCEPT !.pc = "save",
                         !.logo_drawn = readable,
                         !.drawn = IF readable THEN fs[final].owner ELSE 0,
                         !.text_x = TextX(readable)]]
    /\ UNCHANGED <<entry, cairosvg, now, fs, janitor, removed, render>>

\* Lines 277-280: c.save() writes the PDF, then the converted PNG is removed
SavePdf(r) ==
    /\ req[r].pc = "save"
    /\ LET saved == WriteFile(fs, req[r].output_file, FileMeta(now, r, "good", req[r].drawn))
           final == req[r].final_logo_path
       IN  fs' = IF /\ req[r].logo_path # NoPath /\ IsSvg(req[r].logo_path)
                    /\ final # NoPath /\ Exists(saved, final)
                 THEN RemoveFile(saved, final)
                 ELSE saved
    /\ req' = [req EXCEPT ![r].pc = "send"]
    /\ UNCHANGED <<entry, cairosvg, now, janitor, removed, render>>

\* Line 303: send_file opens the output file; it raises when the file is gone
SendFile(r) ==
    /\ req[r].pc = "send"
    /\ LET output_file == req[r].output_file
       IN  req' = [req EXCEPT ![r] =
               IF Exists(fs, output_file)
               THEN [@ EXCEPT !.pc = "finally",
                              !.outcome = "pdf",
                              !.response = [data |-> fs[output_file].owner,
                                            logo |-> fs[output_file].logo]]
               ELSE Raise(@, "FileNotFoundError")]
    /\ UNCHANGED <<entry, cairosvg, now, fs, janitor, removed, render>>

\* A slip: the upload is removed only after a successful render
RemoveUploadOnSuccessOnly(f, rec) ==
    IF rec.outcome = "pdf" /\ rec.logo_path # NoPath /\ Exists(f, rec.logo_path)
    THEN RemoveFile(f, rec.logo_path)
    ELSE f

\* Lines 307-310: the finally clause
RemoveUpload(f, rec) ==
    IF rec.logo_path # NoPath /\ Exists(f, rec.logo_path)
    THEN RemoveFile(f, rec.logo_path)
    ELSE f

Finally(r) ==
    /\ req[r].pc = "finally"
    /\ fs' = RemoveUpload(fs, req[r])
    /\ req' = [req EXCEPT ![r].pc = "done"]
    /\ UNCHANGED <<entry, cairosvg, now, janitor, removed, render>>

---------------------------------------------------------------------------
(* The janitor: cleanup_old_files, started only by the __main__ block *)

NoRemoval == [path |-> NoPath, kind |-> "none", mtime |-> 0, pass_time |-> 0]

JanitorOff == [pc |-> "off", current_time |-> 0, folders |-> <<>>, listing |-> {},
               target |-> NoPath, wake_at |-> 0]

\* Lines 312-313 run start_cleanup_thread(); importing the module, as
\* src/api/index.py does, runs neither
StartedJanitor(how) ==
    IF how = "main" THEN [JanitorOff EXCEPT !.pc = "sleep"] ELSE JanitorOff

\* Line 45
IsStale(current_time, file_time) == current_time - file_time > RetentionSeconds

\* Lines 39-41: a pass starts: read the clock, list the first folder
StartPass ==
    /\ janitor.pc = "sleep"
    /\ now >= janitor.wake_at
    /\ janitor' = [janitor EXCEPT !.pc = "scan",
                                  !.current_time = now,
                                  !.folders = <<UPLOAD_FOLDER>>,
                                  !.listing = ListDir(fs, OUTPUT_FOLDER)]
    /\ UNCHANGED <<entry, cairosvg, now, fs, req, removed, render>>

\* Lines 42-45: one entry of the listing: isfile, getmtime, the age test
Examine ==
    /\ janitor.pc = "scan"
    /\ \E filepath \in janitor.listing :
         janitor' = [janitor EXCEPT
             !.listing = @ \ {filepath},
             !.pc = IF /\ IsFile(fs, filepath)
                       /\ IsStale(janitor.current_time, fs[filepath].mtime)
                    THEN "remove" ELSE "scan",
             !.target = filepath]
    /\ UNCHANGED <<entry, cairosvg, now, fs, req, removed, render>>

\* Line 46: os.remove(filepath) deletes whatever is at the path now; when
\* nothing is, it raises, the pass ends at line 47 and the loop sleeps
Remove ==
    /\ janitor.pc = "remove"
    /\ LET filepath == janitor.target
       IN  IF Exists(fs, filepath)
           THEN /\ fs' = RemoveFile(fs, filepath)
                /\ removed' = [path |-> filepath, kind |-> fs[filepath].kind,
                               mtime |-> fs[filepath].mtime,
                               pass_time |-> janitor.current_time]
                /\ janitor' = [janitor EXCEPT !.pc = "scan"]
           ELSE /\ janitor' = [janitor EXCEPT !.pc = "sleep", !.listing = {},
                                              !.folders = <<>>,
                                              !.wake_at = now + SleepSeconds]
                /\ UNCHANGED <<fs, removed>>
    /\ UNCHANGED <<entry, cairosvg, now, req, render>>

\* Line 40-41: the listing is exhausted: list the next folder
NextFolder ==
    /\ janitor.pc = "scan"
    /\ janitor.listing = {}
    /\ janitor.folders # <<>>
    /\ janitor' = [janitor EXCEPT !.folders = Tail(@),
                                  !.listing = ListDir(fs, Head(janitor.folders))]
    /\ UNCHANGED <<entry, cairosvg, now, fs, req, removed, render>>

\* Line 49: both folders done: time.sleep(30)
EndPass ==
    /\ janitor.pc = "scan"
    /\ janitor.listing = {}
    /\ janitor.folders = <<>>
    /\ janitor' = [janitor EXCEPT !.pc = "sleep", !.wake_at = now + SleepSeconds]
    /\ UNCHANGED <<entry, cairosvg, now, fs, req, removed, render>>

\* The clock advances
Tick ==
    /\ now + TickSeconds <= MaxTicks * TickSeconds
    /\ now' = now + TickSeconds
    /\ UNCHANGED <<entry, cairosvg, fs, req, janitor, removed, render>>

---------------------------------------------------------------------------
(* The server: concurrent requests, the janitor and the clock *)

ServerUploads ==
    { [present |-> FALSE, filename |-> <<>>, content |-> "good"],
      [present |-> TRUE, filename |-> <<"a", ".", "p", "n", "g">>, content |-> "good"] }

EmptyForm == [k \in {} |-> <<>>]
ServerForms ==
    { EmptyForm,
      [k \in {"secondary_color"} |-> <<"r", "e", "d">>] }

RenderIdle == [pc |-> "off"]

Init ==
    /\ entry \in {"main", "wsgi"}
    /\ cairosvg = TRUE
    /\ now = 0
    /\ fs = InitialFiles
    /\ req = [r \in Requests |-> IdleRequest]
    /\ janitor = StartedJanitor(entry)
    /\ removed = NoRemoval
    /\ render = RenderIdle

Next ==
    \/ \E r \in Requests : Stage(r, ServerUploads, ServerForms, {TRUE})
    \/ \E r \in Requests : ProcessLogo(r)
    \/ \E r \in Requests : DrawLogo(r)
    \/ \E r \in Requests : SavePdf(r)
    \/ \E r \in Requests : SendFile(r)
    \/ \E r \in Requests : Finally(r)
    \/ StartPass
    \/ Examine
    \/ Remove
    \/ NextFolder
    \/ EndPass
    \/ Tick

Spec == Init /\ [][Next]_vars

---------------------------------------------------------------------------
(* One request under the WSGI entry point (src/api/index.py): no janitor,  *)
(* every short file name over a small alphabet, both states of cairosvg    *)

NameAlphabet == {"s", "v", "g", "S", "."}
GeneratedNames == UNION { [1..k -> NameAlphabet] : k \in 0..MaxNameLen }
SampleNames ==
    { <<"a", ".", "p", "n", "g">>, <<"a", ".", "J", "p", "e", "G">>,
      <<"a", ".", "t", "x", "t">>, <<"g", "i", "f">>,
      <<"a", ".", "g", "i", "f", ".", "e", "x", "e">>,
      <<".", ".", "/", "a", ".", "j", "p", "g">> }

RequestUploads ==
    { [present |-> FALSE, filename |-> <<>>, content |-> "good"] }
    \cup { [present |-> TRUE, filename |-> n, content |-> c] :
             n \in GeneratedNames \cup SampleNames, c \in {"good", "bad"} }

RequestForms ==
    { EmptyForm,
      [k \in {"primary_color"} |-> <<"#", "0", "a", "f">>],
      [k \in {"primary_color"} |-> <<>>],
      [k \in {"secondary_color"} |-> <<"r", "e", "d">>] }

InitRequest ==
    /\ entry = "wsgi"
    /\ cairosvg \in BOOLEAN
    /\ now = 0
    /\ fs = InitialFiles
    /\ req = [r \in Requests |-> IdleRequest]
    /\ janitor = StartedJanitor(entry)
    /\ removed = NoRemoval
    /\ render = RenderIdle

NextRequest ==
    \/ Stage(1, RequestUploads, RequestForms, BOOLEAN)
    \/ ProcessLogo(1)
    \/ DrawLogo(1)
    \/ SavePdf(1)
    \/ SendFile(1)
    \/ Finally(1)

SpecRequest == InitRequest /\ [][NextRequest]_vars

---------------------------------------------------------------------------
(* create_invoice_pdf's table rows and totals (lines 188-240).  Amounts    *)
(* are held in hundredths; the amounts in the forms carry at most two      *)
(* decimals and no sign or exponent.                                       *)

Scale == 10 * 10     \* amounts are counted in hundredths

RECURSIVE DigitsValue(_)
DigitsValue(s) ==
    IF s = <<>> THEN 0
    ELSE 10 * DigitsValue(SubSeq(s, 1, Len(s) - 1))
         + (CHOOSE d \in 0..9 : Digits[d + 1] = s[Len(s)])

AllDigits(s) == \A i \in DOMAIN s : s[i] \in Range(Digits)

\* float(text) on an unsigned decimal numeral, surrounding blanks ignored:
\* [ok, value in hundredths]; ok is FALSE where float() raises ValueError
ParseFloat(text) ==
    LET t == Strip(text, Whitespace)
        dots == { i \in DOMAIN t : t[i] = "." }
        whole == IF dots = {} THEN t ELSE SubSeq(t, 1, (CHOOSE i \in dots : TRUE) - 1)
        frac == IF dots = {} THEN <<>>
                ELSE SubSeq(t, (CHOOSE i \in dots : TRUE) + 1, Len(t))
        frac2 == SubSeq(frac \o <<"0", "0">>, 1, 2)
        ok == /\ Cardinality(dots) <= 1
              /\ AllDigits(whole) /\ AllDigits(frac)
              /\ Len(whole) + Len(frac) > 0
    IN  [ok |-> ok,
         value |-> IF ok THEN Scale * DigitsValue(whole) + DigitsValue(frac2) ELSE 0]

\* Line 198: .replace('$', '').replace(',', '').strip()
CleanTotal(text) == Strip(RemoveChar(RemoveChar(text, "$"), ","), Whitespace)

\* Lines 212-213: try: subtotal += float(total_raw) / except: pass
Accumulate(subtotal, total_raw) ==
    IF ParseFloat(total_raw).ok THEN subtotal + ParseFloat(total_raw).value ELSE subtotal

\* Division rounding down, for a positive divisor
FloorDiv(a, b) == IF a >= 0 THEN a \div b ELSE 0 - ((0 - a + b - 1) \div b)

\* format(x, ',.0f') of x = num / den: the nearest whole number, a tie going to
\* the even one
RoundHalfEven(num, den) ==
    LET q == FloorDiv(num, den)
        twice == 2 * (num - q * den)
    IN  IF twice > den THEN q + 1
        ELSE IF twice < den THEN q
        ELSE IF q % 2 = 0 THEN q ELSE q + 1

\* A slip: the amount cut to a whole number instead of rounded
DrawnAmountTruncated(subtotal, percent) == FloorDiv(subtotal * percent, 100 * Scale)

\* Lines 230 and 240: f"{subtotal * 0.05:,.0f}" and f"{subtotal * 1.05:,.0f}"
DrawnAmount(subtotal, percent) == RoundHalfEven(subtotal * percent, 100 * Scale)

NameKey(idx) == "product_name_" \o ToString(idx)
TotalKey(idx) == "product_total_" \o ToString(idx)

\* Line 191-192: the loop is entered with an empty table
StartRows ==
    /\ render.pc = "start"
    /\ render' = [render EXCEPT !.pc = "rows", !.subtotal = 0, !.idx = 0, !.rows = {}]
    /\ UNCHANGED <<entry, cairosvg, now, fs, req, janitor, removed>>

\* Lines 193-216: one turn of the while loop
Row ==
    /\ render.pc = "rows"
    /\ NameKey(render.idx) \in DOMAIN render.data
    /\ LET data == render.data
           idx == render.idx
           name == Strip(Get(data, NameKey(idx), <<>>), Whitespace)
           total_raw == CleanTotal(Get(data, TotalKey(idx), <<"0">>))
       IN  render' = IF name # <<>>
                     THEN [render EXCEPT !.rows = @ \cup {idx},
                                         !.subtotal = Accumulate(@, total_raw),
                                         !.idx = idx + 1]
                     ELSE [render EXCEPT !.idx = idx + 1]
    /\ UNCHANGED <<entry, cairosvg, now, fs, req, janitor, removed>>

\* Line 193 fails, then lines 218-240: the tax and total rows
Totals ==
    /\ render.pc = "rows"
    /\ NameKey(render.idx) \notin DOMAIN render.data
    /\ render' = [render EXCEPT !.pc = "done",
                                !.tax_drawn = DrawnAmount(render.subtotal, TaxPercent),
                                !.total_drawn = DrawnAmount(render.subtotal, TotalPercent)]
    /\ UNCHANGED <<entry, cairosvg, now, fs, req, janitor, removed>>

RowNames == { <<>>, <<" ">>, <<"P", "e", "n">> }
RowTotals ==
    { <<"1", "0">>, <<"7", ".", "5">>, <<"$", "1", ",", "2", "5", "0">>,
      <<" ", "0", ".", "4", "9">>, <<"n", "/", "a">> }

NameKeys == { NameKey(i) : i \in 0..(MaxRows - 1) }
TotalKeys == { TotalKey(i) : i \in 0..(MaxRows - 1) }

\* Every form over the row keys: each key absent or holding one of the values
RenderForms ==
    { [k \in DOMAIN names \cup DOMAIN totals |->
          IF k \in DOMAIN names THEN names[k] ELSE totals[k]] :
        names \in UNION { [ks -> RowNames] : ks \in SUBSET NameKeys },
        totals \in UNION { [ks -> RowTotals] : ks \in SUBSET TotalKeys } }

InitRender ==
    /\ entry = "wsgi"
    /\ cairosvg = TRUE
    /\ now = 0
    /\ fs = InitialFiles
    /\ req = [r \in Requests |-> IdleRequest]
    /\ janitor = StartedJanitor(entry)
    /\ removed = NoRemoval
    /\ render \in { [pc |-> "start", data |-> d, idx |-> 0, subtotal |-> 0, rows |-> {},
                     tax_drawn |-> 0, total_drawn |-> 0] : d \in RenderForms }

NextRender == StartRows \/ Row \/ Totals

SpecRender == InitRender /\ [][NextRender]_vars

---------------------------------------------------------------------------
(* Properties *)

Finished(r) == req[r].pc = "done"
Staged(r) == req[r].logo_path # NoPath

C2_PdfOrError500 ==
    \A r \in Requests :
        /\ req[r].outcome # "escaped"
        /\ req[r].raised # "none" => req[r].outcome = "error500"
        /\ Finished(r) =>
              \/ req[r].outcome = "pdf" /\ req[r].raised = "none" /\ req[r].response.data # 0
              \/ req[r].outcome = "error500" /\ req[r].raised # "none"
                    /\ req[r].response = NoResponse

\* C2's case: a request whose rendering raised has returned the error body
C2_Witness ==
    \E r \in Requests :
        Finished(r) /\ req[r].raised = "ValueError" /\ req[r].outcome = "error500"

\* C3: when the SVG logo's conversion fails, nothing is raised by it, the PDF is
\* written with no logo and the company name at the left margin, and the request
\* returns the file unless the theme colours are invalid.
C3_SvgFailureRendersWithoutLogo ==
    \A r \in Requests :
        req[r].conversion = "failed" =>
            /\ req[r].raised \in {"none", "ValueError"}
            /\ req[r].raised = "ValueError" => ThemeRaises(req[r].data)
            /\ req[r].pc \in {"send", "finally", "done"} /\ req[r].raised = "none" =>
                  /\ ~req[r].logo_drawn
                  /\ req[r].text_x = margin_x
                  /\ Exists(fs, req[r].output_file)
                  /\ fs[req[r].output_file].logo = 0
            /\ Finished(r) /\ ~ThemeRaises(req[r].data) =>
                  req[r].outcome = "pdf" /\ req[r].response = [data |-> r, logo |-> 0]

\* C3's case: cairosvg is there, the uploaded SVG is malformed, the request has
\* returned the file
C3_Witness ==
    \E r \in Requests :
        /\ Finished(r) /\ req[r].conversion = "failed" /\ cairosvg
        /\ req[r].upload.content = "bad"
        /\ req[r].outcome = "pdf"

\* C4: whenever a request is being served, the janitor loop is running.
C4_JanitorRunsWhileServing ==
    (\E r \in Requests : req[r].pc \notin {"idle", "done"}) => janitor.pc # "off"

\* C5: the janitor deletes only regular files directly in the upload or output
\* folder whose modification time is more than one minute before the start of
\* the pass that deletes them.
C5_JanitorRemovesOnlyStaleFiles ==
    removed # NoRemoval =>
        /\ removed.kind = "file"
        /\ Head(removed.path) \in {UPLOAD_FOLDER, OUTPUT_FOLDER}
        /\ removed.pass_time - removed.mtime > RetentionSeconds

\* The text after the last dot of the name, lower-cased, is an allowed extension
HasAllowedExtension(f) ==
    \E i \in DOMAIN f :
        /\ f[i] = "."
        /\ \A j \in DOMAIN f : j > i => f[j] # "."
        /\ Lower(SubSeq(f, i + 1, Len(f))) \in
              { <<"p","n","g">>, <<"j","p","g">>, <<"j","p","e","g">>,
                <<"g","i","f">>, <<"s","v","g">> }

\* C6: the upload is written to the upload folder exactly when its name has a dot
\* and an allowed extension after the last dot, whatever the case; otherwise the
\* request writes nothing there, draws no logo and does not fail for it.
C6_OnlyAllowedExtensionsStaged ==
    \A r \in Requests :
        req[r].pc # "idle" =>
            LET ok == req[r].upload.present /\ HasAllowedExtension(req[r].upload.filename)
            IN  /\ (Staged(r) \/ req[r].raised = "OSError") <=> ok
                /\ Staged(r) => Head(req[r].logo_path) = UPLOAD_FOLDER
                /\ ~ok =>
                     /\ \A p \in ListDir(fs, UPLOAD_FOLDER) : fs[p].owner # r
                     /\ ~req[r].logo_drawn
                     /\ req[r].raised \in {"none", "ValueError"}
                     /\ req[r].raised = "ValueError" => ThemeRaises(req[r].data)
                     /\ Finished(r) /\ ~ThemeRaises(req[r].data) =>
                           req[r].outcome = "pdf" /\ req[r].response = [data |-> r, logo |-> 0]

\* C6's case: an upload named a.gif.exe was refused and the PDF returned
C6_Witness ==
    \E r \in Requests :
        /\ Finished(r)
        /\ req[r].upload.present
        /\ req[r].upload.filename = <<"a", ".", "g", "i", "f", ".", "e", "x", "e">>
        /\ ~Staged(r)
        /\ req[r].outcome = "pdf"

\* C8: the files a request stages and generates are private to it: every PDF
\* response is the one rendered from that request's own data and own logo.
C8_RequestsIsolated ==
    \A r \in Requests :
        req[r].outcome = "pdf" =>
            /\ req[r].response.data = r
            /\ req[r].response.logo = (IF Staged(r) THEN r ELSE 0)

\* C10: when a request has finished, the PNG that convert_svg_to_png created for
\* it is gone, whether the PDF was saved or the rendering raised.
C10_ConvertedPngRemoved ==
    \A r \in Requests :
        Finished(r) /\ req[r].png_path # NoPath => ~Exists(fs, req[r].png_path)

---------------------------------------------------------------------------
(* Properties of the rows and totals *)

RECURSIVE SumOfRows(_, _)
SumOfRows(data, rows) ==
    IF rows = {} THEN 0
    ELSE LET i == CHOOSE x \in rows : TRUE
             amount == ParseFloat(CleanTotal(Get(data, TotalKey(i), <<"0">>)))
         IN  (IF amount.ok THEN amount.value ELSE 0) + SumOfRows(data, rows \ {i})

\* n is num/den rounded to the nearest whole number, a tie to the even one
IsNearestWhole(n, num, den) ==
    LET diff == n * den - num
        dist == IF diff >= 0 THEN diff ELSE 0 - diff
    IN  /\ 2 * dist <= den
        /\ 2 * dist = den => n % 2 = 0

C9_EveryNamedRowDrawn ==
    render.pc = "done" =>
        \A i \in 0..(MaxRows - 1) :
            i \in render.rows <=>
                /\ NameKey(i) \in DOMAIN render.data
                /\ Strip(render.data[NameKey(i)], Whitespace) # <<>>

====
